---- MODULE Spec2Model ----
(***************************************************************************)
(* Model of one ChisCode chat session (src/app/main.py): the Chainlit      *)
(* handlers on_message / on_stop / handle_command and the pipeline         *)
(* coroutine process_user_request.  Handlers run on one asyncio event      *)
(* loop: a handler runs without interruption from one await of an external *)
(* service to the next, so every action below is the code between two such *)
(* suspension points.  Awaits that only send UI messages touch no session  *)
(* state and are folded into the segment that follows them.                *)
(***************************************************************************)
EXTENDS Naturals, Integers, Sequences, FiniteSets, TLC

\* ------------------------------------------------------------------ bounds
MaxMessages == 2    \* on_message events delivered in one behaviour
MaxStops == 1       \* on_stop events delivered in one behaviour

\* --------------------------------------------------------------- constants
None == "None"
NoProject == [none |-> TRUE]        \* current_project = None
NoRequirements == [none |-> TRUE]   \* requirements not yet assigned

\* GenerationStatus members used by main.py
IDLE == "IDLE"
GENERATING == "GENERATING"
COMPLETED == "COMPLETED"
FAILED == "FAILED"
CANCELLED == "CANCELLED"

\* message texts, as character sequences so that startswith / lower / strip
\* are computed
BuildText == <<"a", "p", "p">>
HelpText == <<"/", "h", "e", "l", "p">>
ResetText == <<"/", "R", "e", "s", "e", "t", " ">>
Texts == {BuildText, HelpText, ResetText}

\* values the external services can return
FullRequirements == [features |-> <<"create", "edit", "delete">>, project_name |-> "Todo"]
EmptyRequirements == [features |-> <<>>]
Requirements == {FullRequirements, EmptyRequirements}
TechStacks == {"stack"}
FileNames == {"next.config.js", "next.config.ts", "package.json", "manage.py"}

\* file contents, as character sequences so that the substring tests of
\* prepare_deployment_options are computed
ReactContent == <<"{", "r", "e", "a", "c", "t", "}">>
FastapiContent == <<"f", "a", "s", "t", "a", "p", "i">>
PlainContent == <<"r", "e", "a", "d">>
Contents == {ReactContent, FastapiContent, PlainContent}
FixedContent == <<"o", "k">>
PreviewUrls == {"url"}
AskResults == {"yes", "no", None}

\* what the external services produce in the behaviours of Spec: file names
\* and contents play no part in the interleaving of handlers, one of each
SessionEnv == [requirements |-> Requirements, names |-> {"package.json"},
               contents |-> {ReactContent}, events |-> {"file"}]

\* the services' outputs for the behaviours that follow one request through
\* the pipeline: every file name and every content
PipelineEnv == [requirements |-> {FullRequirements}, names |-> FileNames,
                contents |-> Contents, events |-> {"file", "progress"}]

\* every message can start a run
RunIds == 1..MaxMessages

VARIABLES
    generation_status,    \* cl.user_session "generation_status"
    current_project,      \* cl.user_session "current_project"
    memory,               \* cl.user_session "memory": index into memories
    memories,             \* every ConversationBufferMemory object created
    awaiting_input,       \* cl.user_session "awaiting_input"
    feature_live_preview, \* settings.feature_live_preview
    env,                  \* the values the orchestrator's services return
    runs,                 \* the process_user_request coroutines; validations is
                          \* the history of validate_code calls of the run
    started,              \* number of runs started so far
    msgs,                 \* number of on_message events so far
    stops,                \* number of on_stop events so far
    stopped,              \* history: runs that were in flight at an on_stop
    stopFresh,            \* history: on_stop seen, no submission handled since
    session_orchestrator, \* cl.user_session "orchestrator"
    orchestrator,         \* the module global: 0 is None, n the n-th AgentOrchestrator
    session,              \* the session whose context cl.user_session resolves to
    parked                \* the record of the other session, if it has connected

vars == <<generation_status, current_project, memory, memories, awaiting_input,
          feature_live_preview, env, runs, started, msgs, stops, stopped, stopFresh,
          session_orchestrator, orchestrator, session, parked>>

\* what no handler of a connected session writes: its orchestrator slot, the
\* module global, and the other session
elsewhere == <<session_orchestrator, orchestrator, session, parked>>

\* ------------------------------------------------------------ pure helpers
\* str.lower() on one character
LowerChar(c) ==
    CASE c = "R" -> "r"
      [] c = "H" -> "h"
      [] OTHER -> c

\* str.lower()
Lower(s) == [i \in 1..Len(s) |-> LowerChar(s[i])]

RECURSIVE LStrip(_)
LStrip(s) == IF s # <<>> /\ Head(s) = " " THEN LStrip(Tail(s)) ELSE s

RECURSIVE RStrip(_)
RStrip(s) == IF s # <<>> /\ s[Len(s)] = " " THEN RStrip(SubSeq(s, 1, Len(s) - 1)) ELSE s

\* str.strip()
Strip(s) == RStrip(LStrip(s))

\* message.content.startswith("/")
IsCommand(s) == s # <<>> /\ Head(s) = "/"

\* command.lower().strip() of handle_command
NormalizeCommand(s) == Strip(Lower(s))

\* generated_files.setdefault(k, v): the first content of a path is kept
PutIfAbsent(files, k, v) ==
    [p \in (DOMAIN files) \cup {k} |-> IF p \in DOMAIN files THEN files[p] ELSE v]

\* dict assignment generated_files[k] = v
Put(files, k, v) == [p \in (DOMAIN files) \cup {k} |-> IF p = k THEN v ELSE files[p]]

EmptyFiles == [p \in {} |-> FixedContent]

\* needle in hay, on str
RECURSIVE Contains(_, _)
Contains(needle, hay) ==
    IF Len(hay) < Len(needle) THEN FALSE
    ELSE IF SubSeq(hay, 1, Len(needle)) = needle THEN TRUE
    ELSE Contains(needle, Tail(hay))

\* dict.get(k, default)
Get(files, k, default) == IF k \in DOMAIN files THEN files[k] ELSE default

\* deployment_options before line 566 assigns it
NoOptions == [none |-> TRUE]

\* prepare_deployment_options that falls back to vercel when no frontend
\* rule matches
prepare_deployment_options_default_vercel(files) ==
    LET has_nextjs == "next.config.js" \in DOMAIN files \/ "next.config.ts" \in DOMAIN files
        has_react == /\ "package.json" \in DOMAIN files
                     /\ Contains(<<"r", "e", "a", "c", "t">>, Get(files, "package.json", <<>>))
        has_django == "manage.py" \in DOMAIN files
        has_fastapi == \E p \in DOMAIN files :
                          Contains(<<"f", "a", "s", "t", "a", "p", "i">>, files[p])
        frontend == IF has_nextjs
                    THEN [recommended |-> <<"vercel">>, supported |-> <<"netlify", "railway">>]
                    ELSE IF has_react
                    THEN [recommended |-> <<"netlify">>, supported |-> <<"vercel", "render">>]
                    ELSE [recommended |-> <<"vercel">>, supported |-> <<>>]
    IN  IF has_django \/ has_fastapi
        THEN [recommended |-> Append(frontend.recommended, "railway"),
              supported |-> frontend.supported \o <<"render", "fly.io", "aws">>]
        ELSE frontend

\* prepare_deployment_options with 'and' between the two backend markers
prepare_deployment_options_both_markers(files) ==
    LET has_nextjs == "next.config.js" \in DOMAIN files \/ "next.config.ts" \in DOMAIN files
        has_react == /\ "package.json" \in DOMAIN files
                     /\ Contains(<<"r", "e", "a", "c", "t">>, Get(files, "package.json", <<>>))
        has_django == "manage.py" \in DOMAIN files
        has_fastapi == \E p \in DOMAIN files :
                          Contains(<<"f", "a", "s", "t", "a", "p", "i">>, files[p])
        frontend == IF has_nextjs
                    THEN [recommended |-> <<"vercel">>, supported |-> <<"netlify", "railway">>]
                    ELSE IF has_react
                    THEN [recommended |-> <<"netlify">>, supported |-> <<"vercel", "render">>]
                    ELSE [recommended |-> <<>>, supported |-> <<>>]
    IN  IF has_django /\ has_fastapi
        THEN [recommended |-> Append(frontend.recommended, "railway"),
              supported |-> frontend.supported \o <<"render", "fly.io", "aws">>]
        ELSE frontend

\* prepare_deployment_options: frontend is options after the if / elif of
\* lines 725-730
prepare_deployment_options(files) ==
    LET has_nextjs == "next.config.js" \in DOMAIN files \/ "next.config.ts" \in DOMAIN files
        has_react == /\ "package.json" \in DOMAIN files
                     /\ Contains(<<"r", "e", "a", "c", "t">>, Get(files, "package.json", <<>>))
        has_django == "manage.py" \in DOMAIN files
        has_fastapi == \E p \in DOMAIN files :
                          Contains(<<"f", "a", "s", "t", "a", "p", "i">>, files[p])
        frontend == IF has_nextjs
                    THEN [recommended |-> <<"vercel">>, supported |-> <<"netlify", "railway">>]
                    ELSE IF has_react
                    THEN [recommended |-> <<"netlify">>, supported |-> <<"vercel", "render">>]
                    ELSE [recommended |-> <<>>, supported |-> <<>>]
    IN  IF has_django \/ has_fastapi
        THEN [recommended |-> Append(frontend.recommended, "railway"),
              supported |-> frontend.supported \o <<"render", "fly.io", "aws">>]
        ELSE frontend

\* requirements.get("project_name", "My App")
ProjectName(req) == IF "project_name" \in DOMAIN req THEN req.project_name ELSE "My App"

HumanMessage(text) == [role |-> "human", content |-> text]
AIMessage(name) == [role |-> "ai", content |-> <<"Successfully generated", name>>]

\* a memory whose new turn takes the place of the turns held
SetMessage(mems, m, turn) == [mems EXCEPT ![m] = <<turn>>]

\* memory.chat_memory.add_message on memory object m
AddMessage(mems, m, turn) == [mems EXCEPT ![m] = Append(@, turn)]

\* the loop variable update of the async for, outside the loop
NoUpdate == [type |-> "none"]

\* ------------------------------------------------------------------- runs
\* a coroutine that has not been created
NoRun == [pc |-> "none", user_input |-> <<>>, mem |-> 0, requirements |-> NoRequirements,
          tech_stack |-> None, decision |-> "unasked", generated_files |-> EmptyFiles,
          validations |-> <<>>, preview_url |-> None,
          deployment_options |-> NoOptions, update |-> NoUpdate, at |-> None]

InFlight(r) == runs[r].pc \notin {"none", "done"}

\* a coroutine that returned: its locals are gone; at is history, the
\* suspension point from which it returned
DoneRun(stage) == [NoRun EXCEPT !.pc = "done", !.at = stage]

\* no second session has connected
NotConnected == [none |-> TRUE]

\* the session after on_chat_start, with the services' outputs drawn from e;
\* it is the first session of the process, so its on_chat_start found the
\* module global unset and created the orchestrator
InitWith(e) ==
    /\ session = 1
    /\ parked = NotConnected
    /\ orchestrator = 1
    /\ session_orchestrator = 1
    /\ env = e
    /\ generation_status = IDLE
    /\ current_project = NoProject
    /\ memory = 1
    /\ memories = <<<<>>>>
    /\ awaiting_input = None
    /\ feature_live_preview \in BOOLEAN
    /\ runs = [r \in RunIds |-> NoRun]
    /\ started = 0
    /\ msgs = 0
    /\ stops = 0
    /\ stopped = {}
    /\ stopFresh = FALSE

Init == InitWith(SessionEnv)

\* ---------------------------------------------------------------- handlers
\* a handle_command whose other commands put the status back to IDLE
handle_command_idles(command, mems) ==
    IF NormalizeCommand(command) = <<"/", "r", "e", "s", "e", "t">>
    THEN /\ current_project' = NoProject
         /\ generation_status' = IDLE
         /\ memories' = Append(mems, <<>>)
         /\ memory' = Len(mems) + 1
         /\ UNCHANGED <<awaiting_input, runs, started, stopFresh>>
    ELSE /\ memories' = mems
         /\ generation_status' = IDLE
         /\ UNCHANGED <<current_project, memory, awaiting_input, runs, started, stopFresh>>

\* handle_command: only /reset touches the session; /help, /upgrade, /status
\* and unknown commands send one message.  mems is the memory after
\* on_message appended the user turn.
handle_command(command, mems) ==
    IF NormalizeCommand(command) = <<"/", "r", "e", "s", "e", "t">>
    THEN /\ current_project' = NoProject
         /\ generation_status' = IDLE
         /\ memories' = Append(mems, <<>>)
         /\ memory' = Len(mems) + 1
         /\ UNCHANGED <<awaiting_input, runs, started, stopFresh>>
    ELSE /\ memories' = mems
         /\ UNCHANGED <<current_project, generation_status, memory, awaiting_input,
                        runs, started, stopFresh>>

\* entry of process_user_request up to its first await
StartRun(text, mems) ==
    /\ started' = started + 1
    /\ generation_status' = GENERATING
    /\ runs' = [runs EXCEPT ![started + 1] =
                   [NoRun EXCEPT !.pc = "analyze", !.user_input = text, !.mem = memory]]
    /\ memories' = mems
    /\ stopFresh' = FALSE
    /\ UNCHANGED <<current_project, memory, awaiting_input>>

\* a busy session that starts the run all the same
RejectBusyStartsRun(mems) == StartRun(BuildText, mems)

\* the 'still generating' rejection
RejectBusy(mems) ==
    /\ memories' = mems
    /\ stopFresh' = FALSE
    /\ UNCHANGED <<generation_status, current_project, memory, awaiting_input,
                   runs, started>>

\* an on_message that records the message before it asks the quota guard
on_message_memory_first(text, admitted) ==
    /\ msgs < MaxMessages
    /\ msgs' = msgs + 1
    /\ UNCHANGED <<feature_live_preview, env, elsewhere, stops, stopped>>
    /\ LET mems == AddMessage(memories, memory, HumanMessage(text)) IN
       IF ~admitted
       THEN /\ memories' = mems
            /\ UNCHANGED <<generation_status, current_project, memory,
                           awaiting_input, runs, started, stopFresh>>
       ELSE IF IsCommand(text)
            THEN handle_command(text, mems)
            ELSE IF generation_status = GENERATING
                 THEN RejectBusy(mems)
                 ELSE StartRun(text, mems)

\* on_message: admitted is the outcome of check_rate_limit
on_message(text, admitted) ==
    /\ msgs < MaxMessages
    /\ msgs' = msgs + 1
    /\ UNCHANGED <<feature_live_preview, env, elsewhere, stops, stopped>>
    /\ IF ~admitted
       THEN UNCHANGED <<generation_status, current_project, memory, memories,
                        awaiting_input, runs, started, stopFresh>>
       ELSE LET mems == AddMessage(memories, memory, HumanMessage(text)) IN
            IF IsCommand(text)
            THEN handle_command(text, mems)
            ELSE IF generation_status = GENERATING
                 THEN RejectBusy(mems)
                 ELSE StartRun(text, mems)

\* on_stop without its status assignment
on_stop_keeps_status ==
    /\ stops < MaxStops
    /\ stops' = stops + 1
    /\ stopped' = stopped \cup {r \in RunIds : InFlight(r)}
    /\ stopFresh' = TRUE
    /\ UNCHANGED <<generation_status, current_project, memory, memories, awaiting_input,
                   feature_live_preview, env, elsewhere, runs, started, msgs>>

on_stop ==
    /\ stops < MaxStops
    /\ stops' = stops + 1
    /\ generation_status' = CANCELLED
    /\ stopped' = stopped \cup {r \in RunIds : InFlight(r)}
    /\ stopFresh' = TRUE
    /\ UNCHANGED <<current_project, memory, memories, awaiting_input,
                   feature_live_preview, env, elsewhere, runs, started, msgs>>

\* ------------------------------------------------- process_user_request
runFrame == <<feature_live_preview, env, elsewhere, started, msgs, stops, stopped,
              stopFresh, memory>>

\* a step that only changes the coroutine's locals
Local(r, run) ==
    /\ runs' = [runs EXCEPT ![r] = run]
    /\ UNCHANGED <<generation_status, current_project, memories, awaiting_input>>

\* an except branch that also drops the session's project
FailClearsProject(r) ==
    /\ generation_status' = FAILED
    /\ current_project' = NoProject
    /\ runs' = [runs EXCEPT ![r] = DoneRun(runs[r].pc)]
    /\ UNCHANGED <<memories, awaiting_input>>

\* an except branch without its status assignment
FailKeepsStatus(r) ==
    /\ runs' = [runs EXCEPT ![r] = DoneRun(runs[r].pc)]
    /\ UNCHANGED <<generation_status, current_project, memories, awaiting_input>>

\* except Exception: the status becomes FAILED
Fail(r) ==
    /\ generation_status' = FAILED
    /\ runs' = [runs EXCEPT ![r] = DoneRun(runs[r].pc)]
    /\ UNCHANGED <<current_project, memories, awaiting_input>>

Project(run) ==
    [name |-> ProjectName(run.requirements), description |-> run.user_input,
     tech_stack |-> run.tech_stack, files |-> run.generated_files,
     preview_url |-> run.preview_url]

\* an attachment whose deployment options are derived from no files
SaveProjectEmptyOptions(r, run) ==
    /\ current_project' = Project(run)
    /\ runs' = [runs EXCEPT ![r] =
                   [run EXCEPT !.pc = "notify",
                               !.deployment_options = prepare_deployment_options(EmptyFiles)]]
    /\ UNCHANGED <<generation_status, memories, awaiting_input>>

\* prepare_deployment_options (no await inside, result kept in a local),
\* ProjectCreate(...) and cl.user_session.set("current_project", project),
\* then the await of the completion message
SaveProject(r, run) ==
    /\ current_project' = Project(run)
    /\ runs' = [runs EXCEPT ![r] =
                   [run EXCEPT !.pc = "notify",
                               !.deployment_options =
                                   prepare_deployment_options(run.generated_files)]]
    /\ UNCHANGED <<generation_status, memories, awaiting_input>>

\* a pipeline that attaches the project without the preview stage
AfterValidationSkipsPreview(r, run) == SaveProject(r, run)

\* after validation / repair: the preview stage if the feature is on
AfterValidation(r, run) ==
    IF feature_live_preview
    THEN Local(r, [run EXCEPT !.pc = "preview"])
    ELSE SaveProject(r, run)

\* orchestrator.analyze_requirements returns or raises
Analyze(r) ==
    /\ runs[r].pc = "analyze"
    /\ UNCHANGED runFrame
    /\ \/ \E req \in env.requirements :
             Local(r, [runs[r] EXCEPT !.pc = "select", !.requirements = req])
       \/ Fail(r)

\* orchestrator.select_tech_stack returns or raises; the prompt is then shown
SelectStack(r) ==
    /\ runs[r].pc = "select"
    /\ UNCHANGED runFrame
    /\ \/ \E ts \in TechStacks :
             Local(r, [runs[r] EXCEPT !.pc = "confirm", !.tech_stack = ts])
       \/ Fail(r)

\* a modify branch that forgets to give the status back
ConfirmKeepsGenerating(r) ==
    /\ runs[r].pc = "confirm"
    /\ UNCHANGED runFrame
    /\ \E res \in AskResults :
          IF res = "no"
          THEN /\ awaiting_input' = "custom_stack"
               /\ runs' = [runs EXCEPT ![r] = DoneRun(runs[r].pc)]
               /\ UNCHANGED <<generation_status, current_project, memories>>
          ELSE Local(r, [runs[r] EXCEPT !.pc = "generate", !.decision = res,
                                        !.generated_files = EmptyFiles])

\* cl.AskActionMessage(...).send() returns: a decision, or None on timeout
Confirm(r) ==
    /\ runs[r].pc = "confirm"
    /\ UNCHANGED runFrame
    /\ \E res \in AskResults :
          IF res = "no"
          THEN /\ awaiting_input' = "custom_stack"
               /\ generation_status' = IDLE
               /\ runs' = [runs EXCEPT ![r] = DoneRun(runs[r].pc)]
               /\ UNCHANGED <<current_project, memories>>
          ELSE Local(r, [runs[r] EXCEPT !.pc = "generate", !.decision = res,
                                        !.generated_files = EmptyFiles])

\* one iteration of the async for over generate_code_stream: a file event, a
\* progress event, the end of the stream, or an exception.  confirm_msg is
\* not read after line 511; the run keeps it until the stream has ended.
\* update is not read after the loop.
Generate(r) ==
    /\ runs[r].pc = "generate"
    /\ UNCHANGED runFrame
    /\ \/ \E f \in env.names, c \in env.contents :
             Local(r, [runs[r] EXCEPT
                          !.update = [type |-> "file", filename |-> f, content |-> c],
                          !.generated_files = Put(@, f, c)])
       \/ /\ "progress" \in env.events
          /\ Local(r, [runs[r] EXCEPT !.update = [type |-> "progress"]])
       \/ Local(r, [runs[r] EXCEPT !.pc = "validate", !.decision = "unasked",
                                   !.update = NoUpdate])
       \/ Fail(r)

\* the async for is left: the stream closed or raised
StreamEnds(r) == Generate(r) /\ runs'[r].pc # "generate"

\* orchestrator.validate_code returns a report or raises
Validate(r) ==
    /\ runs[r].pc = "validate"
    /\ UNCHANGED runFrame
    /\ \/ \E valid \in BOOLEAN :
             LET run == [runs[r] EXCEPT !.validations =
                            Append(@, [files |-> runs[r].generated_files, valid |-> valid])] IN
             IF valid
             THEN AfterValidation(r, run)
             ELSE Local(r, [run EXCEPT !.pc = "repair"])
       \/ Fail(r)

\* what orchestrator.fix_code_issues can return for files
RepairOutputs(files) == {files, [p \in DOMAIN files |-> FixedContent]}

\* orchestrator.fix_code_issues returns or raises
Repair(r) ==
    /\ runs[r].pc = "repair"
    /\ UNCHANGED runFrame
    /\ \/ \E out \in RepairOutputs(runs[r].generated_files) :
             AfterValidation(r, [runs[r] EXCEPT !.generated_files = out])
       \/ Fail(r)

\* orchestrator.create_preview returns or raises
Preview(r) ==
    /\ runs[r].pc = "preview"
    /\ UNCHANGED runFrame
    /\ \/ \E url \in PreviewUrls : SaveProject(r, [runs[r] EXCEPT !.preview_url = url])
       \/ Fail(r)

\* the completion message was sent: memory turn, status COMPLETED
Complete(r) ==
    /\ runs[r].pc = "notify"
    /\ UNCHANGED runFrame
    /\ memories' = AddMessage(memories, runs[r].mem,
                              AIMessage(ProjectName(runs[r].requirements)))
    /\ generation_status' = COMPLETED
    /\ runs' = [runs EXCEPT ![r] = DoneRun(runs[r].pc)]
    /\ UNCHANGED <<current_project, awaiting_input>>

process_user_request(r) ==
    \/ Analyze(r)
    \/ SelectStack(r)
    \/ Confirm(r)
    \/ Generate(r)
    \/ Validate(r)
    \/ Repair(r)
    \/ Preview(r)
    \/ Complete(r)

Message == \E text \in Texts, admitted \in BOOLEAN : on_message(text, admitted)

Stop == on_stop

Run == \E r \in RunIds : process_user_request(r)

Next == Message \/ Stop \/ Run

Spec == Init /\ [][Next]_vars

\* one request, admitted, and nothing else sent: the round trip of a single
\* submission, with every file name and content the stream can yield
PipelineInit == InitWith(PipelineEnv)

Submit == started = 0 /\ on_message(BuildText, TRUE)

PipelineNext == Submit \/ Stop \/ Run

PipelineSpec == PipelineInit /\ [][PipelineNext]_vars

\* ------------------------------------------------------------ two sessions
\* cl.user_session is local to the session of the running handler: the
\* variables above are the record of that session, parked is the record of
\* the other one

\* the record of the session whose handler is running
Context ==
    [session |-> session, session_orchestrator |-> session_orchestrator,
     generation_status |-> generation_status, current_project |-> current_project,
     memory |-> memory, memories |-> memories, awaiting_input |-> awaiting_input,
     runs |-> runs, started |-> started, msgs |-> msgs, stops |-> stops,
     stopped |-> stopped, stopFresh |-> stopFresh]

\* cl.user_session now resolves to the session with record c
Resume(c) ==
    /\ session' = c.session
    /\ session_orchestrator' = c.session_orchestrator
    /\ generation_status' = c.generation_status
    /\ current_project' = c.current_project
    /\ memory' = c.memory
    /\ memories' = c.memories
    /\ awaiting_input' = c.awaiting_input
    /\ runs' = c.runs
    /\ started' = c.started
    /\ msgs' = c.msgs
    /\ stops' = c.stops
    /\ stopped' = c.stopped
    /\ stopFresh' = c.stopFresh

\* the record on_chat_start leaves for a new session that holds orchestrator o
NewSession(o) ==
    [session |-> 2, session_orchestrator |-> o,
     generation_status |-> IDLE, current_project |-> NoProject,
     memory |-> 1, memories |-> <<<<>>>>, awaiting_input |-> None,
     runs |-> [r \in RunIds |-> NoRun], started |-> 0, msgs |-> 0, stops |-> 0,
     stopped |-> {}, stopFresh |-> FALSE]

\* an on_chat_start that constructs an AgentOrchestrator for every session
on_chat_start_new_orchestrator ==
    /\ parked = NotConnected
    /\ parked' = Context
    /\ orchestrator' = orchestrator + 1
    /\ Resume(NewSession(orchestrator'))
    /\ UNCHANGED <<env, feature_live_preview>>

\* on_chat_start of a second session, from the return of get_user_session:
\* the orchestrator is constructed only if the module global is unset
on_chat_start ==
    /\ parked = NotConnected
    /\ parked' = Context
    /\ orchestrator' = IF orchestrator = 0 THEN 1 ELSE orchestrator
    /\ Resume(NewSession(orchestrator'))
    /\ UNCHANGED <<env, feature_live_preview>>

\* the event loop resumes a handler or coroutine of the other session
Switch ==
    /\ parked # NotConnected
    /\ parked' = Context
    /\ Resume(parked)
    /\ UNCHANGED <<orchestrator, env, feature_live_preview>>

\* two sessions of one process, each sending one request
TwoSessionEnv == [SessionEnv EXCEPT !.requirements = {FullRequirements}]

TwoSessionInit == InitWith(TwoSessionEnv)

TwoSessionNext == on_chat_start \/ Switch \/ Submit \/ Stop \/ Run

TwoSessionSpec == TwoSessionInit /\ [][TwoSessionNext]_vars

\* every external call and every prompt of a run returns or raises, and every
\* generation stream closes
FairSpec ==
    /\ Spec
    /\ \A r \in RunIds : WF_vars(process_user_request(r)) /\ WF_vars(StreamEnds(r))

TypeOK ==
    /\ generation_status \in {IDLE, GENERATING, COMPLETED, FAILED, CANCELLED}
    /\ memory = Len(memories)
    /\ started \in 0..MaxMessages
    /\ \A r \in RunIds : (runs[r].pc = "none") <=> (r > started)

\* ------------------------------------------------------------- properties
RunsInFlight == {r \in RunIds : InFlight(r)}

\* run r took a step
Stepped(r) == runs'[r] # runs[r]

\* the step at which run r attaches its project (line 576)
AttachStep(r) ==
    /\ runs[r].pc \in {"validate", "repair", "preview"}
    /\ runs'[r].pc = "notify"
    /\ current_project' = Project(runs'[r])

\* an admitted on_message whose text is not a command
SubmissionStep ==
    /\ msgs' = msgs + 1
    /\ \E t \in Texts : /\ ~IsCommand(t)
                        /\ memories' = AddMessage(memories, memory, HumanMessage(t))

\* an admitted on_message that dispatched /reset
ResetStep ==
    /\ msgs' = msgs + 1
    /\ memory' = memory + 1
    /\ \E t \in Texts : /\ IsCommand(t)
                        /\ NormalizeCommand(t) = <<"/", "r", "e", "s", "e", "t">>
                        /\ memories' = Append(AddMessage(memories, memory, HumanMessage(t)), <<>>)

AllInvalid(v) == v # <<>> /\ \A i \in 1..Len(v) : ~v[i].valid

\* C1: at most one pipeline run of the session is in flight at any instant.
C1_SingleFlight == Cardinality(RunsInFlight) <= 1

\* C2: when the confirmation prompt returns no decision the run ends at that
\* step with status FAILED and executes no later stage.
C2_TimeoutFails ==
    [][\A r \in RunIds :
          (runs[r].pc = "confirm" /\ Stepped(r) /\ runs'[r].decision = None)
          => (runs'[r].pc = "done" /\ generation_status' = FAILED)]_vars

\* C3: a run is in the generation stage only if its prompt returned "yes".
C3_GenerateOnlyConfirmed ==
    \A r \in RunIds : runs[r].pc = "generate" => runs[r].decision = "yes"

\* C4: with a validator that only reports invalid, a run validates twice
\* (before and after the one repair) and then fails: while it is in flight it
\* is repairing or waiting for the second validation, with one call made, and
\* it never reaches preview or project attachment.
C4_RepairBound ==
    \A r \in RunIds :
        AllInvalid(runs[r].validations)
        => (runs[r].pc \in {"repair", "validate"} /\ Len(runs[r].validations) = 1)

\* C5: a run ends COMPLETED with a project attached only if the last
\* validation was of the attached files and reported valid.
C5_CompletedValidated ==
    [][\A r \in RunIds :
          (runs[r].pc = "notify" /\ runs'[r].pc = "done"
             /\ generation_status' = COMPLETED /\ current_project' # NoProject)
          => LET v == runs[r].validations IN
             /\ v # <<>>
             /\ v[Len(v)].valid
             /\ v[Len(v)].files = current_project'.files]_vars

\* C6: whatever create_preview does, the run goes on to attach its project;
\* a preview failure does not end the run.
C6_PreviewBestEffort ==
    [][\A r \in RunIds :
          (runs[r].pc = "preview" /\ Stepped(r))
          => (runs'[r].pc = "notify" /\ current_project' = Project(runs'[r]))]_vars

\* C7: a run that was in flight at an on_stop never afterwards changes
\* current_project, memory or generation_status.
C7_CancelledDiscarded ==
    [][\A r \in stopped :
          Stepped(r) => UNCHANGED <<current_project, memories, generation_status>>]_vars

\* C8: after on_stop, and until the next submission is handled, the status
\* is not GENERATING, and that submission starts a new run.
C8_StopThenSubmit ==
    /\ [](stopFresh => generation_status # GENERATING)
    /\ [][(stopFresh /\ SubmissionStep)
          => (/\ started' = started + 1
              /\ runs'[started'].pc = "analyze"
              /\ generation_status' = GENERATING)]_vars

\* C8 witness: a stop hit a run in flight and a later submission started a
\* new run.
C8_Witness ==
    /\ ~stopFresh
    /\ \E q \in stopped : InFlight(q)
    /\ \E r \in RunIds \ stopped : InFlight(r)

\* C9: the status never goes from COMPLETED or FAILED to CANCELLED.
C9_NoCancelFromTerminal ==
    [][(generation_status \in {COMPLETED, FAILED}) => (generation_status' # CANCELLED)]_vars

\* C10 as stated: current_project changes only when a run attaches its
\* project.
C10_OnlyAttach ==
    [][current_project' # current_project => (\E r \in RunIds : AttachStep(r))]_vars

\* C10 amended: current_project changes only when a run attaches its
\* project or when /reset clears it.
C10_OnlyAttachOrReset ==
    [][current_project' # current_project
       => \/ \E r \in RunIds : AttachStep(r)
          \/ (ResetStep /\ current_project' = NoProject)]_vars

\* C10 witness: a run attached its project and /reset cleared it again.
C10_Witness ==
    /\ current_project = NoProject
    /\ \E r \in RunIds : runs[r].pc = "notify"

\* the step at which run r returns from its confirmation prompt with "no"
ModifyStep(r) == runs[r].pc = "confirm" /\ runs'[r].pc = "done"

\* an admitted non-command message started run started + 1
RunStarted ==
    /\ started' = started + 1
    /\ runs'[started'].pc = "analyze"
    /\ generation_status' = GENERATING

\* a run that returned invokes no further stage
EndedForGood == \A r \in RunIds : runs[r].pc = "done" => runs'[r] = runs[r]

\* the status becomes GENERATING only when a submission is accepted, and a
\* submission that finds another status starts a run: once a run has left
\* the status at something else, the next submission is accepted
NextSubmissionAccepted ==
    /\ (generation_status' = GENERATING /\ generation_status # GENERATING)
          => SubmissionStep
    /\ (SubmissionStep /\ generation_status # GENERATING) => RunStarted

\* C11: on 'modify' the run ends at that step with status IDLE and
\* awaiting_input "custom_stack" and leaves current_project alone; a run that
\* ended invokes no stage; the status becomes GENERATING only when a
\* submission is accepted, and a submission that finds another status (as the
\* next one after the modify does) starts a run.
C11_ModifyReturnsToIdle ==
    /\ [][\A r \in RunIds :
             ModifyStep(r) => (/\ generation_status' = IDLE
                               /\ awaiting_input' = "custom_stack"
                               /\ current_project' = current_project)]_vars
    /\ [][EndedForGood /\ NextSubmissionAccepted]_vars

\* C11 witness: with no stop and no reset, run 1 was declined at its prompt and
\* the next message started run 2.
C11_Witness ==
    /\ stops = 0
    /\ memory = 1
    /\ awaiting_input = "custom_stack"
    /\ runs[1].pc = "done"
    /\ runs[2].pc = "analyze"

\* the step at which run r ends in the except branch from stage
FailStep(r, stage) == runs[r].pc = stage /\ runs'[r].pc = "done"

\* C12: when analyze_requirements or select_tech_stack raises, the run ends
\* at that step with status FAILED and changes nothing else of the session;
\* analysis never leads straight to the prompt; the run invokes no stage
\* afterwards and the next submission is accepted.
C12_EarlyFailure ==
    /\ [][\A r \in RunIds :
             (FailStep(r, "analyze") \/ FailStep(r, "select"))
             => (/\ generation_status' = FAILED
                 /\ UNCHANGED <<current_project, memories, awaiting_input>>)]_vars
    /\ [][\A r \in RunIds :
             (runs[r].pc = "analyze" /\ Stepped(r))
             => runs'[r].pc \in {"select", "done"}]_vars
    /\ [][EndedForGood /\ NextSubmissionAccepted]_vars

\* C12 witness: with no stop and no reset, run 1 ended in analysis or stack
\* selection and the next message started run 2.
C12_Witness ==
    /\ stops = 0
    /\ memory = 1
    /\ runs[1].pc = "done"
    /\ runs[1].at \in {"analyze", "select"}
    /\ runs[2].pc = "analyze"

\* C13: when every call, prompt and stream of a run comes back, a status
\* GENERATING is always left again and every run in flight ends.
C13_NeverStuck ==
    /\ (generation_status = GENERATING) ~> (generation_status # GENERATING)
    /\ \A r \in RunIds : InFlight(r) ~> (runs[r].pc = "done")

\* C13 witness: a run that was in flight at an on_stop has ended and the
\* status is not GENERATING.
C13_Witness ==
    /\ \E r \in stopped : runs[r].pc = "done"
    /\ generation_status # GENERATING

\* C14: a run whose extraction returned no features does not go on to stack
\* selection, to the prompt or to any later stage.
C14_NoFeaturesFails ==
    \A r \in RunIds :
        runs[r].pc \notin {"none", "analyze", "done"}
        => runs[r].requirements.features # <<>>

\* an on_message whose check_rate_limit raised RateLimitExceeded
DeniedStep == \E t \in Texts : on_message(t, FALSE)

\* C15: the quota guard is asked once per request, before any stage: a run
\* starts only in the on_message step that asked it, later steps of the run
\* are not on_message steps, and a denied request starts no run and leaves
\* memory, generation_status and current_project as they were.
C15_QuotaGuard ==
    /\ [][DeniedStep => UNCHANGED <<memories, memory, generation_status, current_project,
                                    awaiting_input, runs, started>>]_vars
    /\ [][\A r \in RunIds :
             /\ (runs[r].pc = "none" /\ runs'[r].pc # "none")
                => (msgs' = msgs + 1 /\ runs'[r].pc = "analyze")
             /\ (InFlight(r) /\ Stepped(r)) => msgs' = msgs]_vars

\* C15 witness: of two requests one was admitted and is running, the other
\* was denied (the memory holds one message only).
C15_Witness ==
    /\ msgs = 2 /\ started = 1 /\ stops = 0
    /\ Len(memories) = 1 /\ Len(memories[1]) = 1
    /\ runs[1].pc = "generate"

\* C16: a run of the session is in flight exactly when generation_status is
\* GENERATING, in every reachable state.
C16_StatusMatchesRun == (RunsInFlight # {}) <=> (generation_status = GENERATING)

\* the run's only validation so far reported valid
ValidatedOnce(run) == Len(run.validations) = 1 /\ run.validations[1].valid

\* C17: in the round trip of one submission whose stream is validated as
\* valid, the files handed to the validator are the streamed ones, the
\* attached project has exactly these files and the submitted text as its
\* description, the deployment options are those of exactly these files, and
\* the run ends with status COMPLETED and this project still attached.
C17_RoundTrip ==
    /\ [][\A r \in RunIds :
             (runs[r].pc = "generate" /\ Stepped(r) /\ runs'[r].pc # "done")
             => \/ runs'[r].generated_files = runs[r].generated_files
                \/ \E f \in FileNames, c \in Contents :
                      /\ runs'[r].generated_files = Put(runs[r].generated_files, f, c)
                      /\ runs'[r].generated_files[f] = c
                      /\ DOMAIN runs'[r].generated_files = DOMAIN runs[r].generated_files \cup {f}]_vars
    /\ [][\A r \in RunIds :
             (runs[r].pc = "validate" /\ Stepped(r) /\ runs'[r].pc # "done")
             => runs'[r].validations = <<[files |-> runs[r].generated_files,
                                          valid |-> runs'[r].validations[1].valid]>>]_vars
    /\ [](\A r \in RunIds :
             (runs[r].pc = "notify" /\ ValidatedOnce(runs[r]))
             => LET files == runs[r].validations[1].files IN
                /\ current_project # NoProject
                /\ current_project.files = files
                /\ current_project.description = runs[r].user_input
                /\ runs[r].user_input = BuildText
                /\ runs[r].deployment_options = prepare_deployment_options(files))
    /\ [][\A r \in RunIds :
             (runs[r].pc = "notify" /\ Stepped(r))
             => (/\ runs'[r].pc = "done"
                 /\ generation_status' = COMPLETED
                 /\ current_project' = current_project)]_vars

\* C17 witness: a two-file stream was validated as valid and its project
\* is attached.
C17_Witness ==
    /\ runs[1].pc = "notify"
    /\ ValidatedOnce(runs[1])
    /\ Cardinality(DOMAIN runs[1].validations[1].files) = 2
    /\ Cardinality(DOMAIN current_project.files) = 2

\* the elements of a list
Members(seq) == {seq[i] : i \in 1..Len(seq)}

NoDuplicates(seq) == \A i, j \in 1..Len(seq) : seq[i] = seq[j] => i = j

\* a next.config.js or next.config.ts file is among files
HasServerRendered(files) == {"next.config.js", "next.config.ts"} \cap DOMAIN files # {}

\* files has a package.json whose content mentions react
HasClientOnly(files) ==
    /\ "package.json" \in DOMAIN files
    /\ Contains(<<"r", "e", "a", "c", "t">>, files["package.json"])

\* manage.py is among files, or some content contains fastapi
HasBackendMarker(files) ==
    \/ "manage.py" \in DOMAIN files
    \/ \E p \in DOMAIN files : Contains(<<"f", "a", "s", "t", "a", "p", "i">>, files[p])

\* C18: for files with both a next.config file and a package.json that
\* mentions react, the options recommend vercel and then netlify, without
\* duplicates, and support the platforms of both rules.
C18_RulesUnioned ==
    \A r \in RunIds :
        (/\ runs[r].pc = "notify"
         /\ HasServerRendered(runs[r].generated_files)
         /\ HasClientOnly(runs[r].generated_files))
        => LET o == runs[r].deployment_options IN
           /\ {"vercel", "netlify"} \subseteq Members(o.recommended)
           /\ NoDuplicates(o.recommended)
           /\ o.recommended[1] = "vercel"
           /\ {"netlify", "railway", "vercel", "render"} \subseteq Members(o.supported)

\* C20: when a backend marker is among the files the options end their
\* recommendations with railway and support render, fly.io and aws,
\* whichever frontend rule matched; without a backend marker railway is not
\* recommended.
C20_BackendRule ==
    \A r \in RunIds :
        runs[r].pc = "notify"
        => LET files == runs[r].generated_files
               o == runs[r].deployment_options
           IN  IF HasBackendMarker(files)
               THEN /\ "railway" \in Members(o.recommended)
                    /\ {"render", "fly.io", "aws"} \subseteq Members(o.supported)
               ELSE "railway" \notin Members(o.recommended)

\* C20 witness: options of a file set with a next.config file and, as its
\* only backend marker, a content that contains fastapi.
C20_Witness ==
    \E r \in RunIds :
        /\ runs[r].pc = "notify"
        /\ HasServerRendered(runs[r].generated_files)
        /\ "manage.py" \notin DOMAIN runs[r].generated_files
        /\ HasBackendMarker(runs[r].generated_files)
        /\ runs[r].deployment_options.recommended = <<"vercel", "railway">>

\* no deployment rule matches files
NoRuleMatches(files) ==
    /\ ~HasServerRendered(files)
    /\ ~HasClientOnly(files)
    /\ ~HasBackendMarker(files)

\* C21: for files that match no rule, the empty file set included, the
\* options are two empty lists, the step that computed them attached the
\* project, and the run then ends COMPLETED.
C21_NoMatchEmpty ==
    /\ [](\A r \in RunIds :
             (runs[r].pc = "notify" /\ NoRuleMatches(runs[r].generated_files))
             => (/\ runs[r].deployment_options = [recommended |-> <<>>, supported |-> <<>>]
                 /\ current_project # NoProject
                 /\ current_project.files = runs[r].generated_files))
    /\ [][\A r \in RunIds :
             (runs[r].pc = "notify" /\ NoRuleMatches(runs[r].generated_files) /\ Stepped(r))
             => (runs'[r] = DoneRun("notify") /\ generation_status' = COMPLETED)]_vars

\* C21 witness: the options of the empty file set were computed and its
\* project is attached.
C21_Witness ==
    /\ runs[1].pc = "notify"
    /\ runs[1].generated_files = EmptyFiles
    /\ runs[1].deployment_options.recommended = <<>>
    /\ current_project.files = EmptyFiles

\* C22: every iteration of the generation loop that received a file event
\* leaves the result mapping that event's path to that event's content and
\* every other path as before (no path is lost or added), and an iteration
\* that received a progress event leaves the result as it was.
C22_StreamApplied ==
    [][\A r \in RunIds :
          (runs[r].pc = "generate" /\ Stepped(r) /\ runs'[r].pc = "generate")
          => LET before == runs[r].generated_files
                 after == runs'[r].generated_files
                 u == runs'[r].update
             IN  IF u.type = "file"
                 THEN /\ DOMAIN after = DOMAIN before \cup {u.filename}
                      /\ after[u.filename] = u.content
                      /\ \A p \in DOMAIN before \ {u.filename} : after[p] = before[p]
                 ELSE u.type = "progress" /\ after = before]_vars

\* C22 witness: two paths were streamed and the last file event, for a path
\* streamed before with the react content, carried the plain content.
C22_Witness ==
    /\ runs[1].pc = "generate"
    /\ runs[1].update = [type |-> "file", filename |-> "package.json", content |-> PlainContent]
    /\ DOMAIN runs[1].generated_files = {"package.json", "manage.py"}
    /\ runs[1].generated_files["package.json"] = PlainContent
    /\ runs[1].generated_files["manage.py"] = ReactContent

\* the stage that follows stage pc in a run that goes on; preview is part
\* of the pipeline when settings.feature_live_preview is set
StageOrder(pc) ==
    CASE pc = "analyze" -> {"select"}
      [] pc = "select" -> {"confirm"}
      [] pc = "confirm" -> {"generate"}
      [] pc = "generate" -> {"generate", "validate"}
      [] pc = "validate" -> {"repair"} \cup (IF feature_live_preview THEN {"preview"} ELSE {"notify"})
      [] pc = "repair" -> IF feature_live_preview THEN {"preview"} ELSE {"notify"}
      [] pc = "preview" -> {"notify"}
      [] OTHER -> {}

\* C23: a run moves through its stages in the order analyze, select,
\* confirm, generate, validate, repair (after an invalid report only),
\* preview, finalize, or ends; requirements are those analysis returned and
\* the stack the one selection returned for as long as the run goes on; the
\* validator gets the streamed files; only repair changes the files after
\* the stream; and the project and the deployment options are built from
\* the files as they stand after repair.
C23_StageOrder ==
    /\ [][\A r \in RunIds :
             (InFlight(r) /\ Stepped(r))
             => (/\ runs'[r].pc \in StageOrder(runs[r].pc) \cup {"done"}
                 /\ (runs'[r].pc = "repair" => ~runs'[r].validations[1].valid)
                 /\ (runs[r].pc \notin {"analyze"} /\ runs'[r].pc # "done")
                    => runs'[r].requirements = runs[r].requirements
                 /\ (runs[r].pc \notin {"analyze", "select"} /\ runs'[r].pc # "done")
                    => runs'[r].tech_stack = runs[r].tech_stack
                 /\ (runs[r].pc = "validate" /\ runs'[r].pc # "done")
                    => (/\ runs'[r].validations[1].files = runs[r].generated_files
                        /\ runs'[r].generated_files = runs[r].generated_files)
                 /\ (runs[r].pc = "repair" /\ runs'[r].pc # "done")
                    => runs'[r].generated_files \in RepairOutputs(runs[r].generated_files)
                 /\ (runs[r].pc = "preview" /\ runs'[r].pc # "done")
                    => runs'[r].generated_files = runs[r].generated_files
                 /\ (runs'[r].pc = "notify")
                    => (/\ current_project'.files = runs'[r].generated_files
                        /\ current_project'.tech_stack = runs'[r].tech_stack
                        /\ current_project'.preview_url = runs'[r].preview_url
                        /\ runs'[r].deployment_options =
                               prepare_deployment_options(runs'[r].generated_files)))]_vars
    /\ [](\A r \in RunIds :
             /\ runs[r].pc \in {"select", "confirm", "generate", "validate", "repair",
                               "preview", "notify"} => runs[r].requirements \in env.requirements
             /\ runs[r].pc \in {"confirm", "generate", "validate", "repair", "preview",
                               "notify"} => runs[r].tech_stack \in TechStacks
             /\ runs[r].pc \in {"analyze", "select", "confirm"}
                => runs[r].generated_files = EmptyFiles)

\* C23 witness: a run went through repair, which changed the files, and
\* through preview, and its project is attached.
C23_Witness ==
    /\ feature_live_preview
    /\ runs[1].pc = "notify"
    /\ ~runs[1].validations[1].valid
    /\ runs[1].preview_url \in PreviewUrls
    /\ runs[1].generated_files # runs[1].validations[1].files
    /\ current_project.files = runs[1].generated_files

\* the four session slots of a session record
Slots(c) == <<c.generation_status, c.current_project, c.memories[c.memory], c.awaiting_input>>

\* C24: a step of one session (message, stop, run stage, prompt answer)
\* leaves the record of the other session as it is; a session finds its
\* slots across the steps of the other one as it left them; every session
\* holds the one orchestrator the process ever constructed; and a run in
\* flight can take its next step whatever the other session is waiting for.
C24_SessionsIndependent ==
    /\ [][session' = session => parked' = parked]_vars
    /\ [][(session' # session)
          => (/\ parked' = Context
              /\ parked # NotConnected => Slots(Context') = Slots(parked))]_vars
    /\ [](/\ orchestrator = 1
          /\ session_orchestrator = orchestrator
          /\ parked # NotConnected => parked.session_orchestrator = orchestrator)
    /\ [](RunsInFlight # {} => ENABLED Run)

\* C24 witness: the run of the first session is suspended at its
\* confirmation prompt while the run of the second, started later, has
\* attached its project.
C24_Witness ==
    /\ session = 2
    /\ parked # NotConnected
    /\ parked.runs[1].pc = "confirm"
    /\ parked.current_project = NoProject
    /\ runs[1].pc = "notify"
    /\ current_project # NoProject

IsPrefix(a, b) == Len(a) <= Len(b) /\ SubSeq(b, 1, Len(a)) = a

\* C25: across every step the turns the session's memory held are a prefix
\* of the turns it holds afterwards.
C25_AppendOnly == [][IsPrefix(memories[memory], memories'[memory'])]_vars

\* C25, amended: across every step other than a dispatched /reset the turns
\* the session's memory held are a prefix of those it holds afterwards; a
\* /reset leaves the session with a new, empty memory; and no memory object
\* ever loses or reorders a turn.
C25_AppendOnlyOrReset ==
    /\ [][IF ResetStep
          THEN memories'[memory'] = <<>>
          ELSE memory' = memory /\ IsPrefix(memories[memory], memories'[memory'])]_vars
    /\ [][\A m \in 1..Len(memories) : IsPrefix(memories[m], memories'[m])]_vars

\* C25 witness: a /reset left a new, empty memory behind a memory that held
\* user turns and the success turn of a run.
C25_Witness ==
    /\ memory = 2
    /\ memories[2] = <<>>
    /\ Len(memories[1]) = 3
    /\ memories[1][3].role = "ai"

\* C26: once a project is attached, a step of a run that ends it FAILED or
\* declined, and every step of a run that was in flight at an on_stop,
\* leaves current_project as it is; and a run that attaches its project
\* attaches exactly the files of its own stream and repair.
C26_ProjectPersists ==
    [][\A r \in RunIds :
          /\ (/\ current_project # NoProject
              /\ Stepped(r)
              /\ \/ runs'[r].pc = "done" /\ runs[r].pc # "notify"
                 \/ r \in stopped)
             => current_project' = current_project
          /\ (Stepped(r) /\ runs'[r].pc = "notify")
             => current_project'.files = runs'[r].generated_files]_vars

\* C27: whenever generation_status is COMPLETED, current_project is set.
C27_CompletedHasProject == generation_status = COMPLETED => current_project # NoProject

\* run r was started before the last /reset: it holds an earlier memory
StartedBeforeReset(r) == InFlight(r) /\ runs[r].mem < memory

\* C28: a dispatched /reset leaves the status IDLE, no project and an empty
\* memory, and afterwards no step of a run started before it changes the
\* status, the project or the session's memory.
C28_ResetClean ==
    /\ [][ResetStep => (/\ generation_status' = IDLE
                        /\ current_project' = NoProject
                        /\ memories'[memory'] = <<>>)]_vars
    /\ [][\A r \in RunIds :
             (StartedBeforeReset(r) /\ Stepped(r))
             => (/\ UNCHANGED <<generation_status, current_project, memory>>
                 /\ memories'[memory] = memories[memory])]_vars

\* C29: an admitted message that starts with '/' starts no run and moves no
\* run, whatever the status; unless it is /reset, it leaves status, project
\* and awaiting_input as they are and its only effect on the memory is its
\* own user turn.
C29_CommandsOnlyRecorded ==
    [][\A t \in Texts :
          (IsCommand(t) /\ on_message(t, TRUE))
          => (/\ UNCHANGED <<runs, started>>
              /\ NormalizeCommand(t) # <<"/", "r", "e", "s", "e", "t">>
                 => (/\ UNCHANGED <<generation_status, current_project, memory,
                                    awaiting_input>>
                     /\ memories' = [memories EXCEPT ![memory] =
                                        Append(@, [role |-> "human", content |-> t])]))]_vars

\* C29 witness: /help was handled while a run was generating.
C29_Witness ==
    /\ generation_status = GENERATING
    /\ runs[1].pc = "generate"
    /\ started = 1
    /\ Len(memories[1]) = 2
    /\ memories[1][2] = [role |-> "human", content |-> HelpText]

\* the number of assistant turns among turns
AICount(turns) == Cardinality({i \in 1..Len(turns) : turns[i].role = "ai"})

\* C30: an admitted message that is no command and finds the status
\* GENERATING starts no run, moves no run and leaves status and project as
\* they are, and its user turn is in the memory; an assistant turn is added
\* to a memory exactly by the step in which a run leaves the completion
\* message, one turn per such run, and a run is there only through the step
\* that attached its project.
C30_BusyRejected ==
    /\ [][\A t \in Texts :
             (~IsCommand(t) /\ generation_status = GENERATING /\ on_message(t, TRUE))
             => (/\ UNCHANGED <<runs, started, generation_status, current_project, memory>>
                 /\ msgs' = msgs + 1
                 /\ memories' = [memories EXCEPT ![memory] =
                                    Append(@, [role |-> "human", content |-> t])])]_vars
    /\ [][\A m \in 1..Len(memories) :
             AICount(memories'[m]) =
                 AICount(memories[m])
                 + Cardinality({r \in RunIds : /\ runs[r].pc = "notify"
                                               /\ runs'[r].pc = "done"
                                               /\ runs[r].mem = m})]_vars
    /\ [][\A r \in RunIds :
             /\ (runs[r].pc = "notify" /\ Stepped(r)) => runs'[r].pc = "done"
             /\ (runs'[r].pc = "notify" /\ Stepped(r)) => current_project' = Project(runs'[r])]_vars

\* C30 witness: a second request arrived while the run of the first was
\* waiting at its confirmation prompt: it is in the memory and started
\* nothing.
C30_Witness ==
    /\ generation_status = GENERATING
    /\ runs[1].pc = "confirm"
    /\ started = 1
    /\ msgs = 2
    /\ memories[1] = <<[role |-> "human", content |-> BuildText],
                       [role |-> "human", content |-> BuildText]>>

====
